---- MODULE Spec2Model ----
(***************************************************************************)
(* Node abstraction of the wallet (src/src/CryptoNoteWrapper.cpp): the     *)
(* node factory createInprocessNode, the embedded node InprocessNode       *)
(* (init / deinit), the remote adapter RpcNode (getBlockTemplate /         *)
(* handleBlockFound) and the helper interpret_rpc_response, getConnections *)
(* of both adapters, getTxCount of the embedded node, and the payment id   *)
(* codec convertPaymentId / extractPaymentId, and the connection counters  *)
(* of the embedded node (SpecPeers).                                       *)
(*                                                                         *)
(* Specifications: Spec and LiveSpec (one factory call, init, deinit),     *)
(* SpecFactory (the factory under every configuration), SpecRecall (the    *)
(* factory called again), SpecCalls (mining calls), SpecConn, SpecTxCount  *)
(* and SpecCodec.                                                          *)
(*                                                                         *)
(* The collaborators (Core, NodeServer, InProcessNode facade, IDataBase,   *)
(* HttpClient) are called through their interfaces: each call is a step    *)
(* whose outcome (return value or exception) is chosen with \E.            *)
(* Exceptions are named by the handler that catches them:                  *)
(*   "runtime_error"  std::runtime_error and its subclasses                *)
(*   "exception"      any other subclass of std::exception                 *)
(***************************************************************************)
EXTENDS Integers, Naturals, Sequences, FiniteSets, TLC

\* width of the unsigned integers of the model (uint32_t in the program; the
\* model checker's integers are narrower, so the width is scaled down)
UintBits == 4

\* std::numeric_limits<uint32_t>::max(), the "no rewind" value of getRollBack()
UINT32_MAX == 2^UintBits - 1

\* largest rewind height tried
MaxHeight == 1
\* number of facade events (peer count, heights) delivered during a run
MaxEvents == 2
\* number of deinit() calls the application makes
MaxDeinitCalls == 1

RollBackValues == (0..MaxHeight) \cup {UINT32_MAX}

\* calls of createInprocessNode in one process
MaxFactoryCalls == 2

\* peers a connection list may name, and calls of getConnections
MaxConnections == 2
MaxGetConnections == 2

\* blocks of the chain, and transactions of a block besides its coinbase
MaxBlocks == 3
MaxTxPerBlock == 1

\* connections the P2P server holds at a time
MaxPeers == 2

\* bytes of a Crypto::Hash
HashSize == 1

\* entries of CryptoNote::CHECKPOINTS
MaxBuiltin == 2

VARIABLES
  \* ---- configuration (Settings::instance()) ----
  rollBack,        \* Settings::getRollBack()
  dataDirExplicit, \* the data directory was named with the data-dir option
  useLevelDB,      \* Settings::useLevelDB()
  allowReorg,      \* Settings::alowReorg()
  withoutCheckpoints, \* Settings::withoutCheckpoints()
  testnet,         \* Settings::isTestnet()
  \* ---- data directory ----
  marker,          \* persisted schema-version marker: "absent", "current", "stale"
  hasData,         \* TRUE while the directory holds chain data
  dirExists,       \* the data directory exists
  \* ---- createInprocessNode ----
  fpc,             \* position of the factory call
  dbOpen,          \* the engine behind the static handle is open
  dblog,           \* IDataBase calls made so far, in order
  failure,         \* what() of the exception the factory threw, "" if none
  dbFault,         \* exception an IDataBase call raised, "none" if none
  node,            \* TRUE once new InprocessNode(...) has returned
  dirCreated,      \* the factory created the data directory
  handlesMade,     \* storage handles made by make_shared so far
  handle,          \* the handle the static database points to, 0 for null
  engine,          \* its engine: "none", "LevelDB" or "RocksDB"
  nodeHandle,      \* the handle m_database of the node refers to, 0 if no node
  \* ---- the local Checkpoints object of createInprocessNode ----
  checkpoints,     \* the pairs it holds, each named by its position in the list
  cpReorg,         \* the allowReorg mode it was constructed with
  cplog,           \* log lines and calls on it, in order
  dnsResult,       \* "none", "ok" or "failed": outcome of loadCheckpointsFromDns
  nodeCheckpoints, \* the set handed to the InprocessNode constructor
  nodeReorg,       \* its mode
  \* ---- InprocessNode::init (the init thread) ----
  pc,              \* position of the init call
  log,             \* calls init made on core / server / facade / storage
  rewoundTo,       \* argument of m_core.rewind, UINT32_MAX if never called
  startupFault,    \* why startup failed: "none", "init_false", or exception kind
  cbCalls,         \* invocations of the caller's callback: <<path, code>>
  \* ---- facade worker (m_node completion lambda) ----
  facadePc,        \* "none", "pending", "observerAdded", "done", "cbThrew"
  facadeEc,        \* error code the facade completes with
  observers,       \* TRUE once m_node.addObserver(this) ran
  delivered,       \* facade events forwarded to the node
  missed,          \* facade events raised while the node was not registered
  \* ---- InprocessNode::deinit (another thread) ----
  stopSignal,      \* m_nodeServer.sendStopSignal() was called
  deinitCalls,
  deinitEarly,     \* a deinit came after the callback and before the run loop
  \* ---- synchronous calls on a node (the mining thread) ----
  call,            \* the last call: node kind, operation and what the callee did
  ret,             \* its result: "none", "true", "false", or "threw"
  diffic,          \* the caller's variable bound to the diffic out parameter
  height,          \* the caller's variable bound to the height out parameter
  interp,          \* last evaluation of interpret_rpc_response: <<ok, status, err>>
  \* ---- getConnections on either adapter (the calling thread and m_node) ----
  connNode,        \* "none", "rpc" or "inprocess": the adapter called
  connPc,          \* "idle", "waiting" (in future.get()) or "returned"
  connCalls,       \* calls of getConnections begun
  subCalls,        \* calls of m_node.getConnections made
  connections,     \* the local vector the sub-call fills by reference
  collected,       \* what the sub-call has put into it
  subPc,           \* "none", "pending", "collected" or "completed"
  subEc,           \* error code the sub-call completes with
  promise,         \* "unset", or the error code set_value stored
  connRet,         \* the vector returned to the caller
  connLogged,      \* "Failed to get connections" lines written
  \* ---- InprocessNode::getTxCount and the chain of m_core ----
  chainHeight,     \* m_core.getCurrentBlockchainHeight(): blocks in the chain
  chainTxCount,    \* m_core.getBlockchainTransactionsCount(), coinbases included
  txPc,            \* "idle", "readOne" (one operand read) or "done"
  txFirst,         \* the operand evaluated first: "count" or "height"
  txReadCount,     \* the value read for the minuend
  txReadHeight,    \* the value read for the subtrahend
  txResult,        \* the value getTxCount returned
  \* ---- convertPaymentId / extractPaymentId ----
  codecOp,         \* "none", "convert", "extract" or "roundtrip"
  cvInput,         \* paymentIdString
  cvResult,        \* "none", "ok" or "threw"
  cvOut,           \* the bytes convertPaymentId returned
  cvError,         \* what the std::runtime_error it threw says
  encoderCalls,    \* calls of the transaction-extra encoder it made
  exInput,         \* the bytes given to extractPaymentId
  exFound,         \* what getPaymentIdFromTxExtra returned
  exResult,        \* the string extractPaymentId returned
  \* ---- connection counters of InprocessNode and the peers of m_nodeServer ----
  peersIn,         \* incoming connections the P2P server holds
  peersOut,        \* outgoing connections it holds
  pcOp,            \* "none", "total", "outgoing" or "incoming": the accessor called
  pcPc,            \* "idle", "readOne" (one operand read) or "done"
  pcFirst,         \* the operand evaluated first: "total" or "outgoing"
  pcReadTotal,     \* the value get_connections_count() gave
  pcReadOut,       \* the value get_outgoing_connections_count() gave
  pcStable,        \* no connection was opened or closed since the call began
  pcResult         \* the value the accessor returned

cfgVars    == <<rollBack, dataDirExplicit, useLevelDB,
                 allowReorg, withoutCheckpoints, testnet>>
cpVars     == <<checkpoints, cpReorg, cplog, dnsResult, nodeCheckpoints, nodeReorg>>
diskVars   == <<marker, hasData, dirExists>>
factVars   == <<fpc, dbOpen, dblog, failure, dbFault, node,
                 dirCreated, handlesMade, handle, engine, nodeHandle>>
initVars   == <<pc, log, rewoundTo, startupFault, cbCalls>>
facadeVars == <<facadePc, facadeEc, observers, delivered, missed>>
stopVars   == <<stopSignal, deinitCalls, deinitEarly>>
embVars    == <<cfgVars, cpVars, diskVars, factVars, initVars, facadeVars, stopVars>>

callVars   == <<call, ret, diffic, height, interp>>
connVars   == <<connNode, connPc, connCalls, subCalls, connections, collected,
                 subPc, subEc, promise, connRet, connLogged>>
txVars     == <<chainHeight, chainTxCount, txPc, txFirst, txReadCount,
                 txReadHeight, txResult>>
codecVars  == <<codecOp, cvInput, cvResult, cvOut, cvError, encoderCalls,
                 exInput, exFound, exResult>>
peerVars   == <<peersIn, peersOut, pcOp, pcPc, pcFirst, pcReadTotal, pcReadOut,
                 pcStable, pcResult>>
sideVars   == <<connVars, txVars, codecVars, peerVars>>

vars == <<embVars, callVars, sideVars>>

\* outcomes of an IDataBase call: std::system_error carrying IO_ERROR,
\* std::system_error carrying another code, any other std::exception
DbThrows == {"system_error_io", "system_error_other", "exception"}

Has(s, e) == \E i \in 1..Len(s) : s[i] = e
Count(s, e) == Cardinality({i \in 1..Len(s) : s[i] = e})
Pos(s, e) == CHOOSE i \in 1..Len(s) : s[i] = e

(***************************************************************************)
(* createInprocessNode                                                     *)
(***************************************************************************)

\* dbConfig.setConfigFolderDefaulted(true)
ConfigFolderDefaulted == TRUE

\* the I/O error code is not told apart from the other codes
BootstrapFailure_NoIoClass(exc) ==
  IF exc \in {"system_error_io", "system_error_other"} THEN "Database in usage"
  ELSE "Database initialization failed"

\* message of the exception the catch clauses rethrow
BootstrapFailure(exc) ==
  IF exc = "system_error_io" THEN "IO error"
  ELSE IF exc = "system_error_other" THEN "Database in usage"
  ELSE "Database initialization failed"

\* DatabaseBlockchainCache::checkDBSchemeVersion: FALSE for an incompatible marker
checkDBSchemeVersion(m) == m # "stale"

FactoryFail(exc) ==
  /\ fpc' = "failed"
  /\ dbFault' = exc
  /\ failure' = BootstrapFailure(exc)

FactoryDir ==
  /\ fpc = "start"
  /\ IF ConfigFolderDefaulted
     THEN \* Tools::create_directories_if_necessary
          IF dirExists
          THEN /\ fpc' = "makeDatabase"
               /\ UNCHANGED <<failure, dirExists, dirCreated>>
          ELSE \/ /\ dirExists' = TRUE
                  /\ dirCreated' = TRUE
                  /\ fpc' = "makeDatabase"
                  /\ failure' = failure
               \/ /\ fpc' = "failed"
                  /\ failure' = "Can't create directory"
                  /\ UNCHANGED <<dirExists, dirCreated>>
     ELSE \* Tools::directoryExists
          IF dirExists
          THEN /\ fpc' = "makeDatabase"
               /\ UNCHANGED <<failure, dirExists, dirCreated>>
          ELSE /\ fpc' = "failed"
               /\ failure' = "Directory does not exist"
               /\ UNCHANGED <<dirExists, dirCreated>>
  /\ UNCHANGED <<marker, hasData>>
  /\ UNCHANGED <<dbOpen, dblog, dbFault, node, handlesMade, handle, engine, nodeHandle>>
  /\ UNCHANGED <<cfgVars, cpVars, initVars, facadeVars, stopVars, callVars, sideVars>>

\* static std::shared_ptr<IDataBase> database; database = std::make_shared<...>:
\* the static was the only owner of the handle it pointed to
FactoryMakeDatabase ==
  /\ fpc = "makeDatabase"
  /\ handlesMade' = handlesMade + 1
  /\ handle' = handlesMade + 1
  /\ engine' = IF useLevelDB THEN "LevelDB" ELSE "RocksDB"
  /\ dbOpen' = FALSE
  /\ fpc' = "dbInit"
  /\ UNCHANGED <<dblog, failure, dbFault, node, dirCreated, nodeHandle>>
  /\ UNCHANGED <<cfgVars, cpVars, diskVars, initVars, facadeVars, stopVars, callVars, sideVars>>

FactoryDbInit ==
  /\ fpc = "dbInit"
  /\ dblog' = Append(dblog, "init")
  /\ \/ /\ dbOpen' = TRUE
        /\ fpc' = "schemaCheck"
        /\ failure' = failure /\ dbFault' = dbFault
     \/ \E exc \in DbThrows : FactoryFail(exc) /\ dbOpen' = dbOpen
  /\ UNCHANGED <<node, dirCreated, handlesMade, handle, engine, nodeHandle>>
  /\ UNCHANGED <<cfgVars, cpVars, diskVars, initVars, facadeVars, stopVars, callVars, sideVars>>

FactorySchemaCheck ==
  /\ fpc = "schemaCheck"
  /\ dblog' = Append(dblog, "checkDBSchemeVersion")
  /\ \/ /\ fpc' = IF checkDBSchemeVersion(marker) THEN "checkpoints" ELSE "dbShutdown"
        /\ failure' = failure /\ dbFault' = dbFault
     \/ \E exc \in DbThrows : FactoryFail(exc)
  /\ UNCHANGED <<dbOpen, node, dirCreated, handlesMade, handle, engine, nodeHandle>>
  /\ UNCHANGED <<cfgVars, cpVars, diskVars, initVars, facadeVars, stopVars, callVars, sideVars>>

\* the reset reopens the storage without destroying it
FactoryDbShutdown_SkipsDestroy ==
  /\ fpc = "dbShutdown"
  /\ dblog' = Append(dblog, "shutdown")
  /\ \/ /\ dbOpen' = FALSE
        /\ fpc' = "dbReinit"
        /\ failure' = failure /\ dbFault' = dbFault
     \/ \E exc \in DbThrows : FactoryFail(exc) /\ dbOpen' = dbOpen
  /\ UNCHANGED <<node, dirCreated, handlesMade, handle, engine, nodeHandle>>
  /\ UNCHANGED <<cfgVars, cpVars, diskVars, initVars, facadeVars, stopVars, callVars, sideVars>>

FactoryDbShutdown ==
  /\ fpc = "dbShutdown"
  /\ dblog' = Append(dblog, "shutdown")
  /\ \/ /\ dbOpen' = FALSE
        /\ fpc' = "dbDestroy"
        /\ failure' = failure /\ dbFault' = dbFault
     \/ \E exc \in DbThrows : FactoryFail(exc) /\ dbOpen' = dbOpen
  /\ UNCHANGED <<node, dirCreated, handlesMade, handle, engine, nodeHandle>>
  /\ UNCHANGED <<cfgVars, cpVars, diskVars, initVars, facadeVars, stopVars, callVars, sideVars>>

\* IDataBase::destroy: what is left of <<marker, hasData>> in the directory
DestroyedDisk == <<"absent", FALSE>>

FactoryDbDestroy ==
  /\ fpc = "dbDestroy"
  /\ dblog' = Append(dblog, "destroy")
  /\ \/ /\ marker' = DestroyedDisk[1]
        /\ hasData' = DestroyedDisk[2]
        /\ dirExists' = dirExists
        /\ fpc' = "dbReinit"
        /\ failure' = failure /\ dbFault' = dbFault
     \/ \E exc \in DbThrows : FactoryFail(exc) /\ UNCHANGED diskVars
  /\ UNCHANGED <<dbOpen, node, dirCreated, handlesMade, handle, engine, nodeHandle>>
  /\ UNCHANGED <<cfgVars, cpVars, initVars, facadeVars, stopVars, callVars, sideVars>>

FactoryDbReinit ==
  /\ fpc = "dbReinit"
  /\ dblog' = Append(dblog, "init")
  /\ \/ /\ dbOpen' = TRUE
        /\ fpc' = "checkpoints"
        /\ failure' = failure /\ dbFault' = dbFault
     \/ \E exc \in DbThrows : FactoryFail(exc) /\ dbOpen' = dbOpen
  /\ UNCHANGED <<node, dirCreated, handlesMade, handle, engine, nodeHandle>>
  /\ UNCHANGED <<cfgVars, cpVars, diskVars, initVars, facadeVars, stopVars, callVars, sideVars>>

\* the pairs of CryptoNote::CHECKPOINTS and the pairs a DNS record may add
BuiltinCheckpoints == 1..MaxBuiltin
DnsCheckpoints == {MaxBuiltin + 1}

CpEntry(op, i) == [op |-> op, idx |-> i]

\* the test network loads the built-in list like the main network
FactoryCheckpoints_TestnetLoads ==
  /\ fpc = "checkpoints"
  /\ cpReorg' = allowReorg
  /\ checkpoints' = {}
  /\ IF withoutCheckpoints
     THEN /\ cplog' = (IF allowReorg THEN <<CpEntry("warnReorg", 0)>> ELSE <<>>)
                        \o <<CpEntry("logNoCheckpoints", 0)>>
          /\ fpc' = "construct"
     ELSE /\ cplog' = (IF allowReorg THEN <<CpEntry("warnReorg", 0)>> ELSE <<>>)
          /\ fpc' = "addCheckpoint"
  /\ UNCHANGED <<dnsResult, nodeCheckpoints, nodeReorg>>
  /\ UNCHANGED <<dbOpen, dblog, failure, dbFault, node>>
  /\ UNCHANGED <<dirCreated, handlesMade, handle, engine, nodeHandle>>
  /\ UNCHANGED <<cfgVars, diskVars, initVars, facadeVars, stopVars, callVars, sideVars>>

\* Checkpoints checkpoints(logManager, allowReorg) and the choice of mode
FactoryCheckpoints ==
  /\ fpc = "checkpoints"
  /\ cpReorg' = allowReorg
  /\ checkpoints' = {}
  /\ IF withoutCheckpoints
     THEN /\ cplog' = (IF allowReorg THEN <<CpEntry("warnReorg", 0)>> ELSE <<>>)
                        \o <<CpEntry("logNoCheckpoints", 0)>>
          /\ fpc' = "construct"
     ELSE IF testnet
     THEN /\ cplog' = (IF allowReorg THEN <<CpEntry("warnReorg", 0)>> ELSE <<>>)
                        \o <<CpEntry("logTestnet", 0)>>
          /\ fpc' = "construct"
     ELSE /\ cplog' = (IF allowReorg THEN <<CpEntry("warnReorg", 0)>> ELSE <<>>)
          /\ fpc' = "addCheckpoint"
  /\ UNCHANGED <<dnsResult, nodeCheckpoints, nodeReorg>>
  /\ UNCHANGED <<dbOpen, dblog, failure, dbFault, node>>
  /\ UNCHANGED <<dirCreated, handlesMade, handle, engine, nodeHandle>>
  /\ UNCHANGED <<cfgVars, diskVars, initVars, facadeVars, stopVars, callVars, sideVars>>

\* one pass of the loop over CryptoNote::CHECKPOINTS, in list order
FactoryAddCheckpoint ==
  /\ fpc = "addCheckpoint"
  /\ LET i == Cardinality(checkpoints) + 1 IN
       IF i \in BuiltinCheckpoints
       THEN /\ checkpoints' = checkpoints \cup {i}
            /\ cplog' = Append(cplog, CpEntry("add", i))
            /\ fpc' = fpc
       ELSE /\ fpc' = "dns"
            /\ UNCHANGED <<checkpoints, cplog>>
  /\ UNCHANGED <<cpReorg, dnsResult, nodeCheckpoints, nodeReorg>>
  /\ UNCHANGED <<dbOpen, dblog, failure, dbFault, node>>
  /\ UNCHANGED <<dirCreated, handlesMade, handle, engine, nodeHandle>>
  /\ UNCHANGED <<cfgVars, diskVars, initVars, facadeVars, stopVars, callVars, sideVars>>

\* checkpoints.loadCheckpointsFromDns(): its result is not looked at
FactoryLoadCheckpointsFromDns ==
  /\ fpc = "dns"
  /\ cplog' = Append(cplog, CpEntry("dns", 0))
  /\ \/ /\ dnsResult' = "failed"
        /\ checkpoints' = checkpoints
     \/ /\ dnsResult' = "ok"
        /\ \E found \in SUBSET DnsCheckpoints : checkpoints' = checkpoints \cup found
  /\ fpc' = "construct"
  /\ UNCHANGED <<cpReorg, nodeCheckpoints, nodeReorg>>
  /\ UNCHANGED <<dbOpen, dblog, failure, dbFault, node>>
  /\ UNCHANGED <<dirCreated, handlesMade, handle, engine, nodeHandle>>
  /\ UNCHANGED <<cfgVars, diskVars, initVars, facadeVars, stopVars, callVars, sideVars>>

\* new InprocessNode(...): the constructor runs m_core.load(emptyMiner)
FactoryConstruct ==
  /\ fpc = "construct"
  /\ \/ /\ node' = TRUE
        /\ nodeHandle' = IF node THEN nodeHandle ELSE handle
        /\ nodeCheckpoints' = checkpoints
        /\ nodeReorg' = cpReorg
        /\ fpc' = "done"
        /\ failure' = failure /\ dbFault' = dbFault
     \/ /\ node' = node
        /\ UNCHANGED <<nodeHandle, nodeCheckpoints, nodeReorg>>
        /\ fpc' = "failed"
        /\ failure' = "core load" /\ dbFault' = dbFault
  /\ UNCHANGED <<dbOpen, dblog, dirCreated, handlesMade, handle, engine>>
  /\ UNCHANGED <<checkpoints, cpReorg, cplog, dnsResult>>
  /\ UNCHANGED <<cfgVars, diskVars, initVars, facadeVars, stopVars, callVars, sideVars>>

Factory ==
  \/ FactoryDir
  \/ FactoryMakeDatabase
  \/ FactoryDbInit
  \/ FactorySchemaCheck
  \/ FactoryDbShutdown
  \/ FactoryDbDestroy
  \/ FactoryDbReinit
  \/ FactoryCheckpoints
  \/ FactoryAddCheckpoint
  \/ FactoryLoadCheckpointsFromDns
  \/ FactoryConstruct

\* a further call of createInprocessNode: its locals start afresh, the
\* function-static database keeps what the previous call left in it
FactoryRecall ==
  /\ fpc \in {"done", "failed"}
  /\ handlesMade < MaxFactoryCalls
  /\ fpc' = "start"
  /\ dblog' = <<>>
  /\ failure' = ""
  /\ dbFault' = "none"
  /\ checkpoints' = {}
  /\ cpReorg' = FALSE
  /\ cplog' = <<>>
  /\ dnsResult' = "none"
  /\ UNCHANGED <<nodeCheckpoints, nodeReorg>>
  /\ UNCHANGED <<dbOpen, node, dirCreated, handlesMade, handle, engine, nodeHandle>>
  /\ UNCHANGED <<cfgVars, diskVars, initVars, facadeVars, stopVars, callVars, sideVars>>

(***************************************************************************)
(* InprocessNode::init, run by the thread that calls it                    *)
(***************************************************************************)

NOT_INITIALIZED == "NOT_INITIALIZED"

\* the storage is shut down before the core is saved
AfterRun_ShutdownBeforeSave(p) ==
  CASE p = "runExit"        -> "serverDeinit"
    [] p = "serverDeinit"   -> "dbShutdown"
    [] p = "dbShutdown"     -> "save"
    [] p = "save"           -> "facadeShutdown"
    [] p = "facadeShutdown" -> "returned"

\* order of the statements that follow m_node.init(...)
AfterRun(p) ==
  CASE p = "runExit"        -> "serverDeinit"
    [] p = "serverDeinit"   -> "save"
    [] p = "save"           -> "dbShutdown"
    [] p = "dbShutdown"     -> "facadeShutdown"
    [] p = "facadeShutdown" -> "returned"

\* the rewind is applied without the test against the "no rewind" value
InitRewind_IgnoresSentinel ==
  /\ node /\ pc = "start"
  /\ log' = Append(log, "rewind")
  /\ rewoundTo' = rollBack
  /\ \/ pc' = "serverInit" /\ startupFault' = startupFault
     \/ pc' = "catch" /\ startupFault' = "runtime_error"
     \/ pc' = "escaped" /\ startupFault' = "exception"
  /\ UNCHANGED <<cbCalls>>
  /\ UNCHANGED <<cfgVars, cpVars, diskVars, factVars, facadeVars, stopVars, callVars, sideVars>>

\* if (getRollBack() != max) m_core.rewind(getRollBack());
InitRewind ==
  /\ node /\ pc = "start"
  /\ IF rollBack # UINT32_MAX
     THEN /\ log' = Append(log, "rewind")
          /\ rewoundTo' = rollBack
          /\ \/ pc' = "serverInit" /\ startupFault' = startupFault
             \/ pc' = "catch" /\ startupFault' = "runtime_error"
             \/ pc' = "escaped" /\ startupFault' = "exception"
     ELSE /\ pc' = "serverInit"
          /\ UNCHANGED <<log, rewoundTo, startupFault>>
  /\ UNCHANGED <<cbCalls>>
  /\ UNCHANGED <<cfgVars, cpVars, diskVars, factVars, facadeVars, stopVars, callVars, sideVars>>

\* if (!m_nodeServer.init(m_netNodeConfig)) ...
InitServerInit ==
  /\ pc = "serverInit"
  /\ log' = Append(log, "serverInit")
  /\ \/ pc' = "facadeInit" /\ startupFault' = startupFault
     \/ pc' = "initFalse" /\ startupFault' = "init_false"
     \/ pc' = "catch" /\ startupFault' = "runtime_error"
     \/ pc' = "escaped" /\ startupFault' = "exception"
  /\ UNCHANGED <<rewoundTo, cbCalls>>
  /\ UNCHANGED <<cfgVars, cpVars, diskVars, factVars, facadeVars, stopVars, callVars, sideVars>>

\* callback(NOT_INITIALIZED); return;   inside the try block
InitServerInitFailed ==
  /\ pc = "initFalse"
  /\ cbCalls' = Append(cbCalls, <<"init", NOT_INITIALIZED>>)
  /\ \/ pc' = "returned"
     \/ pc' = "catch"
     \/ pc' = "escaped"
  /\ UNCHANGED <<log, rewoundTo, startupFault>>
  /\ UNCHANGED <<cfgVars, cpVars, diskVars, factVars, facadeVars, stopVars, callVars, sideVars>>

\* catch (std::runtime_error&) { callback(NOT_INITIALIZED); return; }
InitCatch ==
  /\ pc = "catch"
  /\ cbCalls' = Append(cbCalls, <<"init", NOT_INITIALIZED>>)
  /\ \/ pc' = "returned"
     \/ pc' = "escaped"
  /\ UNCHANGED <<log, rewoundTo, startupFault>>
  /\ UNCHANGED <<cfgVars, cpVars, diskVars, factVars, facadeVars, stopVars, callVars, sideVars>>

\* m_node.init([this, callback](std::error_code ec) {...});
InitFacadeInit ==
  /\ pc = "facadeInit"
  /\ log' = Append(log, "facadeInit")
  /\ facadePc' = "pending"
  /\ pc' = "run"
  /\ UNCHANGED <<rewoundTo, startupFault, cbCalls>>
  /\ UNCHANGED <<facadeEc, observers, delivered, missed>>
  /\ UNCHANGED <<cfgVars, cpVars, diskVars, factVars, stopVars, callVars, sideVars>>

\* the run loop is entered only after the facade has completed without error
InitRun_WaitsForFacadeOk ==
  /\ pc = "run"
  /\ facadePc = "done"
  /\ facadeEc = "OK"
  /\ log' = Append(log, "run")
  /\ pc' = "running"
  /\ UNCHANGED <<rewoundTo, startupFault, cbCalls>>
  /\ UNCHANGED <<cfgVars, cpVars, diskVars, factVars, facadeVars, stopVars, callVars, sideVars>>

\* a stop signal sent before the run loop is entered is dropped
InitRun_DropsPendingStop ==
  /\ pc = "run"
  /\ log' = Append(log, "run")
  /\ pc' = "running"
  /\ stopSignal' = FALSE
  /\ UNCHANGED <<deinitCalls, deinitEarly>>
  /\ UNCHANGED <<rewoundTo, startupFault, cbCalls>>
  /\ UNCHANGED <<cfgVars, cpVars, diskVars, factVars, facadeVars, callVars, sideVars>>

\* m_nodeServer.run(): the call is entered
InitRun ==
  /\ pc = "run"
  /\ log' = Append(log, "run")
  /\ pc' = "running"
  /\ UNCHANGED <<rewoundTo, startupFault, cbCalls>>
  /\ UNCHANGED <<cfgVars, cpVars, diskVars, factVars, facadeVars, stopVars, callVars, sideVars>>

\* m_nodeServer.run() returns once the server has been told to stop
InitRunExit ==
  /\ pc = "running"
  /\ stopSignal
  /\ log' = Append(log, "runExit")
  /\ pc' = AfterRun("runExit")
  /\ UNCHANGED <<rewoundTo, startupFault, cbCalls>>
  /\ UNCHANGED <<cfgVars, cpVars, diskVars, factVars, facadeVars, stopVars, callVars, sideVars>>

\* m_nodeServer.deinit();
InitServerDeinit ==
  /\ pc = "serverDeinit"
  /\ log' = Append(log, "serverDeinit")
  /\ pc' = AfterRun("serverDeinit")
  /\ UNCHANGED <<rewoundTo, startupFault, cbCalls>>
  /\ UNCHANGED <<cfgVars, cpVars, diskVars, factVars, facadeVars, stopVars, callVars, sideVars>>

\* m_core.save();
InitSave ==
  /\ pc = "save"
  /\ log' = Append(log, "save")
  /\ pc' = AfterRun("save")
  /\ UNCHANGED <<rewoundTo, startupFault, cbCalls>>
  /\ UNCHANGED <<cfgVars, cpVars, diskVars, factVars, facadeVars, stopVars, callVars, sideVars>>

\* m_database.shutdown();
\* m_database.shutdown(): m_database is a reference; once the static has
\* released the object it refers to, the call has no defined effect
InitDbShutdown ==
  /\ pc = "dbShutdown"
  /\ log' = Append(log, "dbShutdown")
  /\ IF nodeHandle = handle
     THEN dbOpen' = FALSE
     ELSE dbOpen' \in BOOLEAN
  /\ pc' = AfterRun("dbShutdown")
  /\ UNCHANGED <<rewoundTo, startupFault, cbCalls>>
  /\ UNCHANGED <<fpc, dblog, failure, dbFault, node>>
  /\ UNCHANGED <<dirCreated, handlesMade, handle, engine, nodeHandle>>
  /\ UNCHANGED <<cfgVars, cpVars, diskVars, facadeVars, stopVars, callVars, sideVars>>

\* m_node.shutdown();
InitFacadeShutdown ==
  /\ pc = "facadeShutdown"
  /\ log' = Append(log, "facadeShutdown")
  /\ pc' = AfterRun("facadeShutdown")
  /\ UNCHANGED <<rewoundTo, startupFault, cbCalls>>
  /\ UNCHANGED <<cfgVars, cpVars, diskVars, factVars, facadeVars, stopVars, callVars, sideVars>>

InitThread ==
  \/ InitRewind
  \/ InitServerInit
  \/ InitServerInitFailed
  \/ InitCatch
  \/ InitFacadeInit
  \/ InitRun
  \/ InitRunExit
  \/ InitServerDeinit
  \/ InitSave
  \/ InitDbShutdown
  \/ InitFacadeShutdown

(***************************************************************************)
(* The facade's worker: completion of m_node.init and facade events        *)
(***************************************************************************)

ErrorCodes == {"OK", "FACADE_ERROR"}

\* m_node.addObserver(this);   first statement of the completion lambda
FacadeAddObserver ==
  /\ facadePc = "pending"
  /\ \E ec \in ErrorCodes : facadeEc' = ec
  /\ observers' = TRUE
  /\ facadePc' = "observerAdded"
  /\ UNCHANGED <<delivered, missed>>
  /\ UNCHANGED <<cfgVars, cpVars, diskVars, factVars, initVars, stopVars, callVars, sideVars>>

\* the completion lambda invokes the callback before it registers the observer
FacadeCallback_BeforeAddObserver ==
  /\ facadePc \in {"pending", "observerAdded"}
  /\ \E ec \in {"OK", "FACADE_ERROR"} :
       cbCalls' = Append(cbCalls, <<"facade", IF facadePc = "pending" THEN ec ELSE facadeEc>>)
  /\ \/ facadePc' = "done"
     \/ facadePc' = "cbThrew"
  /\ UNCHANGED <<pc, log, rewoundTo, startupFault>>
  /\ UNCHANGED <<facadeEc, observers, delivered, missed>>
  /\ UNCHANGED <<cfgVars, cpVars, diskVars, factVars, stopVars, callVars, sideVars>>

\* callback(ec);   second statement of the completion lambda
FacadeCallback ==
  /\ facadePc = "observerAdded"
  /\ cbCalls' = Append(cbCalls, <<"facade", facadeEc>>)
  /\ \/ facadePc' = "done"
     \/ facadePc' = "cbThrew"
  /\ UNCHANGED <<pc, log, rewoundTo, startupFault>>
  /\ UNCHANGED <<facadeEc, observers, delivered, missed>>
  /\ UNCHANGED <<cfgVars, cpVars, diskVars, factVars, stopVars, callVars, sideVars>>

\* peerCountUpdated / localBlockchainUpdated / lastKnownBlockHeightUpdated:
\* the facade notifies the observers registered at that moment
FacadeEvent ==
  /\ facadePc # "none"
  /\ ~Has(log, "facadeShutdown")
  /\ delivered + missed < MaxEvents
  /\ IF observers
     THEN delivered' = delivered + 1 /\ missed' = missed
     ELSE missed' = missed + 1 /\ delivered' = delivered
  /\ UNCHANGED <<facadePc, facadeEc, observers>>
  /\ UNCHANGED <<cfgVars, cpVars, diskVars, factVars, initVars, stopVars, callVars, sideVars>>

Facade ==
  \/ FacadeAddObserver
  \/ FacadeCallback
  \/ FacadeEvent

(***************************************************************************)
(* InprocessNode::deinit, called from another thread                       *)
(***************************************************************************)

\* deinit returns without signalling the server
Deinit_NoStopSignal ==
  /\ node /\ pc # "start"
  /\ deinitCalls < MaxDeinitCalls
  /\ deinitCalls' = deinitCalls + 1
  /\ deinitEarly' = (deinitEarly \/ (pc = "run" /\ facadePc = "done"))
  /\ stopSignal' = stopSignal
  /\ UNCHANGED <<cfgVars, cpVars, diskVars, factVars, initVars, facadeVars, callVars, sideVars>>

\* m_nodeServer.sendStopSignal();
Deinit ==
  /\ node /\ pc # "start"
  /\ deinitCalls < MaxDeinitCalls
  /\ deinitCalls' = deinitCalls + 1
  /\ deinitEarly' = (deinitEarly \/ (pc = "run" /\ facadePc = "done"))
  /\ stopSignal' = TRUE
  /\ UNCHANGED <<cfgVars, cpVars, diskVars, factVars, initVars, facadeVars, callVars, sideVars>>

(***************************************************************************)
(* Synchronous calls: interpret_rpc_response, and getBlockTemplate /       *)
(* handleBlockFound on both adapters                                       *)
(***************************************************************************)

CORE_RPC_STATUS_OK == "OK"
CORE_RPC_STATUS_BUSY == "BUSY"

\* largest difficulty a template response carries
MaxDifficulty == 2

\* status strings a daemon's response may carry
StatusValues ==
  {CORE_RPC_STATUS_OK, CORE_RPC_STATUS_BUSY, "", "Failed",
   "possible lost connection to daemon"}

\* rsp.blocktemplate_blob: "valid" decodes and parses; "garbage" is hex that
\* fromBinaryArray rejects; "nothex" makes Common::fromHex throw
BlobValues == {"valid", "garbage", "nothex"}

\* what invokeJsonRpcCommand (or a statement before it) raises
RpcThrows == {"ConnectException", "exception"}

\* the test for the busy status is missing
interpret_rpc_response_NoBusy(ok, status) ==
  IF ok
  THEN IF status # "OK" THEN status ELSE ""
  ELSE "possible lost connection to daemon"

interpret_rpc_response(ok, status) ==
  IF ok
  THEN IF status = CORE_RPC_STATUS_BUSY
       THEN "daemon is busy. Please try later"
       ELSE IF status # CORE_RPC_STATUS_OK
            THEN status
            ELSE ""
  ELSE "possible lost connection to daemon"

Interpret ==
  /\ \E ok \in BOOLEAN, status \in StatusValues :
       interp' = <<ok, status, interpret_rpc_response(ok, status)>>
  /\ UNCHANGED <<call, ret, diffic, height>>
  /\ UNCHANGED <<embVars, sideVars>>

\* responses the daemon may give; after an exception rsp stays value-initialized
Responses ==
  [exc : {"none"}, status : StatusValues, blob : BlobValues,
   difficulty : 1..MaxDifficulty, height : 0..MaxHeight]
  \cup
  [exc : RpcThrows, status : {""}, blob : {"garbage"},
   difficulty : {0}, height : {0}]

\* diffic and height are assigned before the blob is parsed
RpcGetBlockTemplate_WritesBeforeParse ==
  /\ \E rsp \in Responses :
       /\ call' = [node |-> "rpc", op |-> "getBlockTemplate", exc |-> rsp.exc,
                   status |-> rsp.status, blob |-> rsp.blob,
                   difficulty |-> rsp.difficulty, height |-> rsp.height]
       /\ IF rsp.exc # "none"
          THEN ret' = "false" /\ UNCHANGED <<diffic, height>>
          ELSE IF interpret_rpc_response(TRUE, rsp.status) = ""
          THEN /\ diffic' = rsp.difficulty
               /\ height' = rsp.height
               /\ ret' = IF rsp.blob = "valid" THEN "true" ELSE "false"
          ELSE ret' = "false" /\ UNCHANGED <<diffic, height>>
  /\ UNCHANGED interp
  /\ UNCHANGED <<embVars, sideVars>>

\* RpcNode::getBlockTemplate
RpcGetBlockTemplate ==
  /\ \E rsp \in Responses :
       /\ call' = [node |-> "rpc", op |-> "getBlockTemplate", exc |-> rsp.exc,
                   status |-> rsp.status, blob |-> rsp.blob,
                   difficulty |-> rsp.difficulty, height |-> rsp.height]
       /\ IF rsp.exc = "ConnectException"
          THEN ret' = "false" /\ UNCHANGED <<diffic, height>>
          ELSE IF rsp.exc # "none"
          THEN ret' = "false" /\ UNCHANGED <<diffic, height>>
          ELSE IF interpret_rpc_response(TRUE, rsp.status) = ""
          THEN IF rsp.blob = "nothex"
               THEN ret' = "false" /\ UNCHANGED <<diffic, height>>
               ELSE IF rsp.blob # "valid"
               THEN ret' = "false" /\ UNCHANGED <<diffic, height>>
               ELSE /\ diffic' = rsp.difficulty
                    /\ height' = rsp.height
                    /\ ret' = "true"
          ELSE ret' = "false" /\ UNCHANGED <<diffic, height>>
  /\ UNCHANGED interp
  /\ UNCHANGED <<embVars, sideVars>>

\* responses to submitblock carry a status only
SubmitResponses ==
  [exc : {"none"}, status : StatusValues] \cup [exc : RpcThrows, status : {""}]

\* RpcNode::handleBlockFound
RpcHandleBlockFound ==
  /\ \E rsp \in SubmitResponses :
       /\ call' = [node |-> "rpc", op |-> "handleBlockFound", exc |-> rsp.exc,
                   status |-> rsp.status, blob |-> "garbage",
                   difficulty |-> 0, height |-> 0]
       /\ IF rsp.exc = "ConnectException"
          THEN ret' = "false"
          ELSE IF rsp.exc # "none"
          THEN ret' = "false"
          ELSE IF interpret_rpc_response(TRUE, rsp.status) = ""
          THEN ret' = "true"
          ELSE ret' = "false"
  /\ UNCHANGED <<diffic, height, interp>>
  /\ UNCHANGED <<embVars, sideVars>>

\* what m_core.getBlockTemplate / m_core.handleBlockFound does
CoreOutcomes == {"true", "false", "runtime_error", "exception"}

\* InprocessNode::getBlockTemplate
EmbGetBlockTemplate ==
  /\ \E out \in CoreOutcomes, d \in 1..MaxDifficulty, h \in 0..MaxHeight :
       /\ call' = [node |-> "inprocess", op |-> "getBlockTemplate",
                   exc |-> IF out \in {"true", "false"} THEN "none" ELSE out,
                   status |-> out, blob |-> "garbage",
                   difficulty |-> IF out = "true" THEN d ELSE 0,
                   height |-> IF out = "true" THEN h ELSE 0]
       /\ IF out = "true"
          THEN diffic' = d /\ height' = h /\ ret' = "true"
          ELSE IF out = "false"
          THEN ret' = "false" /\ UNCHANGED <<diffic, height>>
          ELSE ret' = "threw" /\ UNCHANGED <<diffic, height>>
  /\ UNCHANGED interp
  /\ UNCHANGED <<embVars, sideVars>>

\* InprocessNode::handleBlockFound
EmbHandleBlockFound ==
  /\ \E out \in CoreOutcomes :
       /\ call' = [node |-> "inprocess", op |-> "handleBlockFound",
                   exc |-> IF out \in {"true", "false"} THEN "none" ELSE out,
                   status |-> out, blob |-> "garbage",
                   difficulty |-> 0, height |-> 0]
       /\ ret' = IF out \in {"true", "false"} THEN out ELSE "threw"
  /\ UNCHANGED <<diffic, height, interp>>
  /\ UNCHANGED <<embVars, sideVars>>

CallsIdle ==
  /\ call = [node |-> "none", op |-> "none", exc |-> "none", status |-> "",
             blob |-> "garbage", difficulty |-> 0, height |-> 0]
  /\ ret = "none"
  /\ diffic = 0
  /\ height = 0
  /\ interp = <<FALSE, "", "possible lost connection to daemon">>

(***************************************************************************)
(* getConnections of RpcNode and InprocessNode (the same statements)       *)
(***************************************************************************)

\* lists m_node may deliver
ConnectionLists ==
  UNION {[1..n -> 1..MaxConnections] : n \in 0..MaxConnections}

\* from the declaration of the vector to the return of m_node.getConnections:
\* the request is queued, or m_node completes it at once with an error
ConnCall ==
  /\ connPc \in {"idle", "returned"}
  /\ connCalls < MaxGetConnections
  /\ \E n \in {"rpc", "inprocess"} : connNode' = n
  /\ connCalls' = connCalls + 1
  /\ connections' = <<>>
  /\ collected' = <<>>
  /\ connRet' = <<>>
  /\ subCalls' = subCalls + 1
  /\ \/ /\ subPc' = "pending"
        /\ promise' = "unset"
        /\ subEc' = "OK"
     \/ /\ subPc' = "completed"
        /\ promise' = "ERROR"
        /\ subEc' = "ERROR"
  /\ connPc' = "waiting"
  /\ UNCHANGED connLogged
  /\ UNCHANGED <<embVars, callVars, txVars, codecVars, peerVars>>

\* m_node's worker obtains the list and assigns it to the caller's vector
ConnSubCollect ==
  /\ subPc = "pending"
  /\ \/ \E cs \in ConnectionLists :
          /\ connections' = cs
          /\ collected' = cs
          /\ subEc' = "OK"
     \/ /\ subEc' = "ERROR"
        /\ UNCHANGED <<connections, collected>>
  /\ subPc' = "collected"
  /\ UNCHANGED <<connNode, connPc, connCalls, subCalls, promise, connRet, connLogged>>
  /\ UNCHANGED <<embVars, callVars, txVars, codecVars, peerVars>>

\* the completion lambda: detachedPromise.set_value(ec)
ConnSubComplete ==
  /\ subPc = "collected"
  /\ promise' = subEc
  /\ subPc' = "completed"
  /\ UNCHANGED <<connNode, connPc, connCalls, subCalls, connections, collected,
                 subEc, connRet, connLogged>>
  /\ UNCHANGED <<embVars, callVars, txVars, codecVars, peerVars>>

\* the caller does not wait for the completion
ConnReturn_NoWait ==
  /\ connPc = "waiting"
  /\ connLogged' = IF promise = "ERROR" THEN connLogged + 1 ELSE connLogged
  /\ connRet' = connections
  /\ connPc' = "returned"
  /\ UNCHANGED <<connNode, connCalls, subCalls, connections, collected,
                 subPc, subEc, promise>>
  /\ UNCHANGED <<embVars, callVars, txVars, codecVars, peerVars>>

\* getConnectionsWaitFuture.get() returns, the error is logged, return connections
ConnReturn ==
  /\ connPc = "waiting"
  /\ promise # "unset"
  /\ connLogged' = IF promise = "ERROR" THEN connLogged + 1 ELSE connLogged
  /\ connRet' = connections
  /\ connPc' = "returned"
  /\ UNCHANGED <<connNode, connCalls, subCalls, connections, collected,
                 subPc, subEc, promise>>
  /\ UNCHANGED <<embVars, callVars, txVars, codecVars, peerVars>>

ConnIdle ==
  /\ connNode = "none"
  /\ connPc = "idle"
  /\ connCalls = 0
  /\ subCalls = 0
  /\ connections = <<>>
  /\ collected = <<>>
  /\ subPc = "none"
  /\ subEc = "OK"
  /\ promise = "unset"
  /\ connRet = <<>>
  /\ connLogged = 0

(***************************************************************************)
(* InprocessNode::getTxCount, called while the core's threads add blocks   *)
(***************************************************************************)

\* the width of the result, scaled like UINT32_MAX
UINT64_MOD == 2^UintBits

\* the core accepts a block: its coinbase and k further transactions
CoreAddBlock ==
  /\ chainHeight < MaxBlocks
  /\ \E k \in 0..MaxTxPerBlock :
       /\ chainHeight' = chainHeight + 1
       /\ chainTxCount' = chainTxCount + 1 + k
  /\ UNCHANGED <<txPc, txFirst, txReadCount, txReadHeight, txResult>>
  /\ UNCHANGED <<embVars, callVars, connVars, codecVars, peerVars>>

\* the first of the two operands of the subtraction is evaluated; the
\* language does not fix which
TxCountReadFirst ==
  /\ txPc \in {"idle", "done"}
  /\ \E first \in {"count", "height"} :
       /\ txFirst' = first
       /\ IF first = "count"
          THEN txReadCount' = chainTxCount /\ txReadHeight' = txReadHeight
          ELSE txReadHeight' = chainHeight /\ txReadCount' = txReadCount
  /\ txPc' = "readOne"
  /\ UNCHANGED <<chainHeight, chainTxCount, txResult>>
  /\ UNCHANGED <<embVars, callVars, connVars, codecVars, peerVars>>

\* the other operand is evaluated and the unsigned difference returned
TxCountReadSecond ==
  /\ txPc = "readOne"
  /\ LET c == IF txFirst = "count" THEN txReadCount ELSE chainTxCount
         h == IF txFirst = "height" THEN txReadHeight ELSE chainHeight
     IN /\ txReadCount' = c
        /\ txReadHeight' = h
        /\ txResult' = (c - h) % UINT64_MOD
  /\ txPc' = "done"
  /\ UNCHANGED <<chainHeight, chainTxCount, txFirst>>
  /\ UNCHANGED <<embVars, callVars, connVars, codecVars, peerVars>>

\* getTxCount is not running; the call's variables hold nothing yet
TxIdle ==
  /\ txPc = "idle"
  /\ txFirst = "count"
  /\ txReadCount = 0
  /\ txReadHeight = 0
  /\ txResult = 0

\* a chain of the genesis block only
GenesisChain ==
  /\ chainHeight = 1
  /\ chainTxCount = 1

(***************************************************************************)
(* convertPaymentId and extractPaymentId                                   *)
(***************************************************************************)

\* characters of the strings given to convertPaymentId
IdChars == {"0", "1", "a", "A", "g"}
HexDigits == <<"0", "1", "2", "3", "4", "5", "6", "7",
               "8", "9", "a", "b", "c", "d", "e", "f">>

\* Common::fromHex(char): both cases of a letter are digits
IsHex(c) == c \in {"0", "1", "a", "A"}
HexValue(c) ==
  CASE c = "0" -> 0
    [] c = "1" -> 1
    [] c \in {"a", "A"} -> 10

\* Common::podFromHex into a Crypto::Hash: the length must be exact
parsePaymentId(str) ==
  /\ Len(str) = 2 * HashSize
  /\ \A i \in 1..Len(str) : IsHex(str[i])
HashOf(str) ==
  [i \in 1..HashSize |-> 16 * HexValue(str[2 * i - 1]) + HexValue(str[2 * i])]

\* Common::podToHex: two lower-case digits per byte
podToHex(h) ==
  [i \in 1..(2 * Len(h)) |->
     IF i % 2 = 1 THEN HexDigits[(h[(i + 1) \div 2] \div 16) + 1]
                  ELSE HexDigits[(h[i \div 2] % 16) + 1]]

NULL_HASH == [i \in 1..HashSize |-> 0]

\* tags of the transaction-extra format
TX_EXTRA_TAG_PADDING == 0
TX_EXTRA_TAG_PUBKEY == 1
TX_EXTRA_NONCE == 2
TX_EXTRA_NONCE_PAYMENT_ID == 0
TX_EXTRA_NONCE_MAX_COUNT == 255

\* CryptoNote::setPaymentIdToTransactionExtraNonce
setPaymentIdToTransactionExtraNonce(h) == <<TX_EXTRA_NONCE_PAYMENT_ID>> \o h

\* CryptoNote::addExtraNonceToTransactionExtra: <<ok, extra>>
addExtraNonceToTransactionExtra(extra, nonce) ==
  IF Len(nonce) > TX_EXTRA_NONCE_MAX_COUNT
  THEN <<FALSE, extra>>
  ELSE <<TRUE, extra \o <<TX_EXTRA_NONCE, Len(nonce)>> \o nonce>>

\* CryptoNote::parseTransactionExtra: whether the bytes parse, and the
\* nonce fields in the order they appear
RECURSIVE ParseFields(_)
ParseFields(b) ==
  IF b = <<>>
  THEN [ok |-> TRUE, nonces |-> <<>>]
  ELSE LET tag == Head(b)
           rest == Tail(b)
       IN CASE tag = TX_EXTRA_TAG_PADDING ->
                 [ok |-> \A i \in 1..Len(rest) : rest[i] = 0, nonces |-> <<>>]
            [] tag = TX_EXTRA_TAG_PUBKEY ->
                 IF Len(rest) < HashSize
                 THEN [ok |-> FALSE, nonces |-> <<>>]
                 ELSE ParseFields(SubSeq(rest, HashSize + 1, Len(rest)))
            [] tag = TX_EXTRA_NONCE ->
                 IF rest = <<>> \/ Len(rest) - 1 < Head(rest)
                 THEN [ok |-> FALSE, nonces |-> <<>>]
                 ELSE LET n == Head(rest)
                          r == ParseFields(SubSeq(rest, n + 2, Len(rest)))
                      IN [ok |-> r.ok,
                          nonces |-> <<SubSeq(rest, 2, n + 1)>> \o r.nonces]
            [] OTHER -> ParseFields(rest)

\* CryptoNote::getPaymentIdFromTxExtra: <<found, paymentId>>; paymentId is
\* written only when found
getPaymentIdFromTxExtra(extra) ==
  LET p == ParseFields(extra) IN
    IF ~p.ok \/ p.nonces = <<>>
    THEN <<FALSE, NULL_HASH>>
    ELSE LET nonce == p.nonces[1] IN
           IF Len(nonce) = HashSize + 1 /\ nonce[1] = TX_EXTRA_NONCE_PAYMENT_ID
           THEN <<TRUE, Tail(nonce)>>
           ELSE <<FALSE, NULL_HASH>>

NoError == [kind |-> "none", names |-> <<>>]

\* the hash is handed to the encoder without the payment id marker
convertPaymentId_NoNonceMarker(paymentIdString) ==
  IF paymentIdString = <<>>
  THEN [result |-> "ok", out |-> <<>>, error |-> NoError, encoder |-> 0]
  ELSE IF ~parsePaymentId(paymentIdString)
  THEN [result |-> "threw", out |-> <<>>,
        error |-> [kind |-> "invalid format", names |-> paymentIdString],
        encoder |-> 0]
  ELSE LET added == addExtraNonceToTransactionExtra(<<>>, HashOf(paymentIdString))
       IN [result |-> "ok", out |-> added[2], error |-> NoError, encoder |-> 1]

\* the string is encoded without being parsed first; what the hash then
\* holds is whatever the digits that are there give
convertPaymentId_NoParseCheck(paymentIdString) ==
  IF paymentIdString = <<>>
  THEN [result |-> "ok", out |-> <<>>, error |-> NoError, encoder |-> 0]
  ELSE LET added == addExtraNonceToTransactionExtra(<<>>,
                      setPaymentIdToTransactionExtraNonce(NULL_HASH))
       IN [result |-> "ok", out |-> added[2], error |-> NoError, encoder |-> 1]

\* convertPaymentId: result, returned bytes, error thrown, encoder calls
convertPaymentId(paymentIdString) ==
  IF paymentIdString = <<>>
  THEN [result |-> "ok", out |-> <<>>, error |-> NoError, encoder |-> 0]
  ELSE IF ~parsePaymentId(paymentIdString)
  THEN [result |-> "threw", out |-> <<>>,
        error |-> [kind |-> "invalid format", names |-> paymentIdString],
        encoder |-> 0]
  ELSE LET added == addExtraNonceToTransactionExtra(<<>>,
                      setPaymentIdToTransactionExtraNonce(HashOf(paymentIdString)))
       IN IF ~added[1]
          THEN [result |-> "threw", out |-> <<>>,
                error |-> [kind |-> "something went wrong", names |-> paymentIdString],
                encoder |-> 1]
          ELSE [result |-> "ok", out |-> added[2], error |-> NoError, encoder |-> 1]

\* the identifier found is returned whatever its value
extractPaymentId_NoNullCheck(extra) ==
  LET got == getPaymentIdFromTxExtra(extra) IN
    [found |-> got[1],
     res |-> IF got[1] THEN podToHex(got[2]) ELSE <<>>]

\* extractPaymentId: what the lookup returned, and the string returned
extractPaymentId(extra) ==
  LET got == getPaymentIdFromTxExtra(extra) IN
    [found |-> got[1],
     res |-> IF got[1] /\ got[2] # NULL_HASH THEN podToHex(got[2]) ELSE <<>>]

\* strings and byte strings the two functions are given
IdStrings == UNION {[1..n -> IdChars] : n \in 0..(2 * HashSize + 1)}
ExtraBytes == {0, 1, TX_EXTRA_NONCE, HashSize + 1, 170}
ExtraStrings == UNION {[1..n -> ExtraBytes] : n \in 0..(HashSize + 3)}

CodecIdle ==
  /\ codecOp = "none"
  /\ cvInput = <<>>
  /\ cvResult = "none"
  /\ cvOut = <<>>
  /\ cvError = NoError
  /\ encoderCalls = 0
  /\ exInput = <<>>
  /\ exFound = FALSE
  /\ exResult = <<>>

\* a call of convertPaymentId
Convert ==
  /\ codecOp = "none"
  /\ \E str \in IdStrings :
       LET r == convertPaymentId(str) IN
         /\ cvInput' = str
         /\ cvResult' = r.result
         /\ cvOut' = r.out
         /\ cvError' = r.error
         /\ encoderCalls' = r.encoder
  /\ codecOp' = "convert"
  /\ UNCHANGED <<exInput, exFound, exResult>>
  /\ UNCHANGED <<embVars, callVars, connVars, txVars, peerVars>>

\* a call of extractPaymentId on bytes read from a transaction
Extract ==
  /\ codecOp = "none"
  /\ \E extra \in ExtraStrings :
       LET r == extractPaymentId(extra) IN
         /\ exInput' = extra
         /\ exFound' = r.found
         /\ exResult' = r.res
  /\ codecOp' = "extract"
  /\ UNCHANGED <<cvInput, cvResult, cvOut, cvError, encoderCalls>>
  /\ UNCHANGED <<embVars, callVars, connVars, txVars, peerVars>>

\* a call of extractPaymentId on what convertPaymentId returned
ExtractConverted ==
  /\ codecOp = "convert"
  /\ cvResult = "ok"
  /\ LET r == extractPaymentId(cvOut) IN
       /\ exInput' = cvOut
       /\ exFound' = r.found
       /\ exResult' = r.res
  /\ codecOp' = "roundtrip"
  /\ UNCHANGED <<cvInput, cvResult, cvOut, cvError, encoderCalls>>
  /\ UNCHANGED <<embVars, callVars, connVars, txVars, peerVars>>

(***************************************************************************)
(* getConnectionsCount, getOutgoingConnectionsCount and                    *)
(* getIncomingConnectionsCount, called while the P2P server's threads open *)
(* and close connections                                                   *)
(***************************************************************************)

\* the P2P server accepts or makes a connection
PeerOpen ==
  /\ peersIn + peersOut < MaxPeers
  /\ \/ peersIn' = peersIn + 1 /\ peersOut' = peersOut
     \/ peersOut' = peersOut + 1 /\ peersIn' = peersIn
  /\ pcStable' = FALSE
  /\ UNCHANGED <<pcOp, pcPc, pcFirst, pcReadTotal, pcReadOut, pcResult>>
  /\ UNCHANGED <<embVars, callVars, connVars, txVars, codecVars>>

\* a connection is closed
PeerClose ==
  /\ \/ peersIn > 0 /\ peersIn' = peersIn - 1 /\ peersOut' = peersOut
     \/ peersOut > 0 /\ peersOut' = peersOut - 1 /\ peersIn' = peersIn
  /\ pcStable' = FALSE
  /\ UNCHANGED <<pcOp, pcPc, pcFirst, pcReadTotal, pcReadOut, pcResult>>
  /\ UNCHANGED <<embVars, callVars, connVars, txVars, codecVars>>

\* return m_nodeServer.get_connections_count();
GetConnectionsCount ==
  /\ pcPc \in {"idle", "done"}
  /\ pcOp' = "total"
  /\ pcReadTotal' = peersIn + peersOut
  /\ pcResult' = peersIn + peersOut
  /\ pcStable' = TRUE
  /\ pcPc' = "done"
  /\ UNCHANGED <<peersIn, peersOut, pcFirst, pcReadOut>>
  /\ UNCHANGED <<embVars, callVars, connVars, txVars, codecVars>>

\* return m_nodeServer.get_outgoing_connections_count();
GetOutgoingConnectionsCount ==
  /\ pcPc \in {"idle", "done"}
  /\ pcOp' = "outgoing"
  /\ pcReadOut' = peersOut
  /\ pcResult' = peersOut
  /\ pcStable' = TRUE
  /\ pcPc' = "done"
  /\ UNCHANGED <<peersIn, peersOut, pcFirst, pcReadTotal>>
  /\ UNCHANGED <<embVars, callVars, connVars, txVars, codecVars>>

\* getIncomingConnectionsCount: the first of the two operands of the
\* subtraction is evaluated; the language does not fix which
IncomingReadFirst ==
  /\ pcPc \in {"idle", "done"}
  /\ pcOp' = "incoming"
  /\ \E first \in {"total", "outgoing"} :
       /\ pcFirst' = first
       /\ IF first = "total"
          THEN pcReadTotal' = peersIn + peersOut /\ pcReadOut' = pcReadOut
          ELSE pcReadOut' = peersOut /\ pcReadTotal' = pcReadTotal
  /\ pcStable' = TRUE
  /\ pcPc' = "readOne"
  /\ UNCHANGED <<peersIn, peersOut, pcResult>>
  /\ UNCHANGED <<embVars, callVars, connVars, txVars, codecVars>>

\* the other operand is evaluated and the unsigned difference returned
IncomingReadSecond ==
  /\ pcPc = "readOne"
  /\ LET t == IF pcFirst = "total" THEN pcReadTotal ELSE peersIn + peersOut
         o == IF pcFirst = "outgoing" THEN pcReadOut ELSE peersOut
     IN /\ pcReadTotal' = t
        /\ pcReadOut' = o
        /\ pcResult' = (t - o) % UINT64_MOD
  /\ pcPc' = "done"
  /\ UNCHANGED <<peersIn, peersOut, pcOp, pcFirst, pcStable>>
  /\ UNCHANGED <<embVars, callVars, connVars, txVars, codecVars>>

\* no accessor is running; the call's variables hold nothing yet
PeerIdle ==
  /\ pcOp = "none"
  /\ pcPc = "idle"
  /\ pcFirst = "total"
  /\ pcReadTotal = 0
  /\ pcReadOut = 0
  /\ pcStable = TRUE
  /\ pcResult = 0

\* the P2P server has no connection yet
NoPeers ==
  /\ peersIn = 0
  /\ peersOut = 0

\* no call outside the facade, the factory and the mining calls is under way
SideIdle == ConnIdle /\ TxIdle /\ GenesisChain /\ CodecIdle /\ PeerIdle /\ NoPeers

(***************************************************************************)
(* Specification of the embedded node: factory call, then init / deinit    *)
(***************************************************************************)

\* init has not been called
InitIdle ==
  /\ pc = "start"
  /\ log = <<>>
  /\ rewoundTo = UINT32_MAX
  /\ startupFault = "none"
  /\ cbCalls = <<>>
  /\ facadePc = "none"
  /\ facadeEc = "OK"
  /\ observers = FALSE
  /\ delivered = 0
  /\ missed = 0
  /\ stopSignal = FALSE
  /\ deinitCalls = 0
  /\ deinitEarly = FALSE

\* nothing has run yet: no factory call, no handle, no node
Fresh ==
  /\ fpc = "start"
  /\ dbOpen = FALSE
  /\ dblog = <<>>
  /\ failure = ""
  /\ dbFault = "none"
  /\ node = FALSE
  /\ dirCreated = FALSE
  /\ handlesMade = 0
  /\ handle = 0
  /\ engine = "none"
  /\ nodeHandle = 0
  /\ checkpoints = {}
  /\ cpReorg = FALSE
  /\ cplog = <<>>
  /\ dnsResult = "none"
  /\ nodeCheckpoints = {}
  /\ nodeReorg = FALSE
  /\ InitIdle

\* what a data directory may hold before the process starts
DiskStates ==
  /\ dirExists \in BOOLEAN
  /\ marker \in {"absent", "current", "stale"}
  /\ hasData \in BOOLEAN
  /\ (marker = "absent" => ~hasData)
  /\ (~dirExists => marker = "absent")

InitEmb ==
  /\ rollBack \in RollBackValues
  /\ dataDirExplicit = FALSE
  /\ useLevelDB = FALSE
  /\ allowReorg = FALSE
  /\ withoutCheckpoints = FALSE
  /\ testnet = FALSE
  /\ DiskStates
  /\ Fresh

Init == InitEmb /\ CallsIdle /\ SideIdle

Next ==
  \/ Factory
  \/ InitThread
  \/ Facade
  \/ Deinit

Spec == Init /\ [][Next]_vars

\* the factory called more than once in the process
NextRecall ==
  \/ Factory
  \/ FactoryRecall
  \/ InitThread
  \/ Facade
  \/ Deinit

\* the data directory is there and no rewind is configured
InitRecall ==
  /\ Init
  /\ dirExists
  /\ rollBack = UINT32_MAX

SpecRecall == InitRecall /\ [][NextRecall]_vars

\* the factory alone, under every configuration
InitFactory ==
  /\ rollBack = UINT32_MAX
  /\ dataDirExplicit \in BOOLEAN
  /\ useLevelDB \in BOOLEAN
  /\ allowReorg \in BOOLEAN
  /\ withoutCheckpoints \in BOOLEAN
  /\ testnet \in BOOLEAN
  /\ DiskStates
  /\ Fresh
  /\ CallsIdle
  /\ SideIdle

SpecFactory == InitFactory /\ [][Factory]_vars

\* the init thread is scheduled as long as it has a step to take
LiveSpec == Init /\ [][Next]_vars /\ WF_vars(InitThread)

(***************************************************************************)
(* Specification of the synchronous calls on constructed nodes             *)
(***************************************************************************)

\* the embedded part stays as constructed
EmbIdle ==
  /\ rollBack = UINT32_MAX
  /\ dataDirExplicit = FALSE
  /\ useLevelDB = FALSE
  /\ allowReorg = FALSE
  /\ withoutCheckpoints = FALSE
  /\ testnet = FALSE
  /\ marker = "current"
  /\ hasData = TRUE
  /\ dirExists = TRUE
  /\ fpc = "done"
  /\ dbOpen = TRUE
  /\ dblog = <<"init", "checkDBSchemeVersion">>
  /\ failure = ""
  /\ dbFault = "none"
  /\ node = TRUE
  /\ dirCreated = FALSE
  /\ handlesMade = 1
  /\ handle = 1
  /\ engine = "RocksDB"
  /\ nodeHandle = 1
  /\ checkpoints = BuiltinCheckpoints
  /\ cpReorg = FALSE
  /\ cplog = [i \in 1..MaxBuiltin |-> CpEntry("add", i)] \o <<CpEntry("dns", 0)>>
  /\ dnsResult = "failed"
  /\ nodeCheckpoints = BuiltinCheckpoints
  /\ nodeReorg = FALSE
  /\ InitIdle

InitCalls == EmbIdle /\ CallsIdle /\ SideIdle

NextCalls ==
  \/ Interpret
  \/ RpcGetBlockTemplate
  \/ RpcHandleBlockFound
  \/ EmbGetBlockTemplate
  \/ EmbHandleBlockFound

SpecCalls == InitCalls /\ [][NextCalls]_vars

(***************************************************************************)
(* Specification of getConnections: the caller and the worker of m_node    *)
(***************************************************************************)

InitConn == EmbIdle /\ CallsIdle /\ SideIdle

NextConn ==
  \/ ConnCall
  \/ ConnSubCollect
  \/ ConnSubComplete
  \/ ConnReturn

\* a thread blocked in future.get() resumes once the value is set
SpecConn == InitConn /\ [][NextConn]_vars /\ WF_vars(ConnReturn)

(***************************************************************************)
(* Specification of getTxCount on a loaded chain that may grow             *)
(***************************************************************************)

\* chains the core may hold after loading: every block has its coinbase
InitTxCount ==
  /\ EmbIdle /\ CallsIdle /\ ConnIdle /\ TxIdle /\ CodecIdle /\ PeerIdle /\ NoPeers
  /\ chainHeight \in 1..MaxBlocks
  /\ chainTxCount \in chainHeight..(chainHeight * (1 + MaxTxPerBlock))

NextTxCount ==
  \/ CoreAddBlock
  \/ TxCountReadFirst
  \/ TxCountReadSecond

SpecTxCount == InitTxCount /\ [][NextTxCount]_vars

(***************************************************************************)
(* Specification of the payment id codec                                   *)
(***************************************************************************)

InitCodec == EmbIdle /\ CallsIdle /\ SideIdle

NextCodec ==
  \/ Convert
  \/ Extract
  \/ ExtractConverted

SpecCodec == InitCodec /\ [][NextCodec]_vars

(***************************************************************************)
(* Specification of the connection counters of the embedded node           *)
(***************************************************************************)

InitPeers == EmbIdle /\ CallsIdle /\ SideIdle

NextPeers ==
  \/ PeerOpen
  \/ PeerClose
  \/ GetConnectionsCount
  \/ GetOutgoingConnectionsCount
  \/ IncomingReadFirst
  \/ IncomingReadSecond

SpecPeers == InitPeers /\ [][NextPeers]_vars

(***************************************************************************)
(* Properties of InprocessNode::init / deinit                              *)
(***************************************************************************)

Before(s, a, b) == Has(s, a) /\ (Has(s, b) => Pos(s, a) < Pos(s, b))

IsTeardown(e) == e \in {"run", "runExit", "save", "dbShutdown", "facadeShutdown"}
Teardown == <<"run", "runExit", "save", "dbShutdown", "facadeShutdown">>
IsPrefix(s, t) == Len(s) <= Len(t) /\ \A i \in 1..Len(s) : s[i] = t[i]

\* C1: once init is blocked in the P2P server's run loop and deinit has been
\* called, init eventually returns; the storage is shut down only after the
\* run loop was left, and it has been shut down when init returns.
C1_DeinitUnblocksInit ==
  /\ [](Has(log, "dbShutdown") => Before(log, "runExit", "dbShutdown"))
  /\ []((pc = "returned" /\ Has(log, "run")) => (Has(log, "dbShutdown") /\ ~dbOpen))
  /\ ((pc = "running" /\ deinitCalls > 0) ~> pc = "returned")

C1_Witness ==
  /\ pc = "returned"
  /\ deinitCalls > 0
  /\ Has(log, "runExit")
  /\ ~dbOpen

C20_CallbackAtMostOnce ==
  /\ Len(cbCalls) <= 1
  /\ (Has(log, "facadeInit") => ~Has(cbCalls, <<"init", NOT_INITIALIZED>>))

\* C2: the calls init makes from the run loop on are, in this order and each
\* at most once, run, (run returns), core save, storage shutdown, facade
\* shutdown; when an init that entered the run loop has returned, all of
\* them were made.
C2_TeardownOrder ==
  /\ IsPrefix(SelectSeq(log, IsTeardown), Teardown)
  /\ (pc = "returned" /\ Has(log, "run")) => SelectSeq(log, IsTeardown) = Teardown

C2_Witness ==
  /\ pc = "returned"
  /\ SelectSeq(log, IsTeardown) = Teardown

\* C3 (as claimed): after a failed server initialization or any exception in
\* rewind or server initialization, no exception leaves init, the callback is
\* invoked with NOT_INITIALIZED only (exactly once when init has returned),
\* the facade is not initialized, and neither the run loop nor any teardown
\* call is made.
C3_StartupFailureReported ==
  startupFault # "none" =>
    /\ pc # "escaped"
    /\ \A i \in 1..Len(cbCalls) : cbCalls[i] = <<"init", NOT_INITIALIZED>>
    /\ Len(cbCalls) <= 1
    /\ (pc = "returned" => Len(cbCalls) = 1)
    /\ facadePc = "none"
    /\ ~Has(log, "facadeInit")
    /\ SelectSeq(log, IsTeardown) = <<>>

FacadeCallbackInvoked == \E i \in 1..Len(cbCalls) : cbCalls[i][1] = "facade"

\* C4: whenever the caller's callback has been invoked by the facade's
\* completion, the node is already registered as observer, and from then on
\* no facade event is missed.
C4_ObserverBeforeCallback ==
  /\ [](FacadeCallbackInvoked => observers)
  /\ [][FacadeCallbackInvoked => missed' = missed]_vars

C4_Witness ==
  /\ FacadeCallbackInvoked
  /\ facadePc = "done"
  /\ observers
  /\ delivered > 0

\* init has left the run loop
LeftRunLoop == Has(log, "runExit")

\* C22: once the P2P server is initialised the run loop is entered whether
\* or not the facade's completion has fired and whatever it reported; when
\* the facade reports an error the caller's callback gets that error code
\* unchanged, the node is registered as observer all the same, and init
\* stays in the run loop until deinit is called and then performs the whole
\* teardown.
C22_RunLoopUnconditional ==
  /\ (pc = "facadeInit" ~> Has(log, "run"))
  /\ [](\A i \in 1..Len(cbCalls) :
          cbCalls[i][1] = "facade" => (cbCalls[i][2] = facadeEc /\ observers))
  /\ [](LeftRunLoop => (stopSignal /\ deinitCalls > 0))
  /\ ((facadeEc = "FACADE_ERROR" /\ pc = "running" /\ stopSignal)
        ~> (pc = "returned" /\ SelectSeq(log, IsTeardown) = Teardown /\ ~dbOpen))

C22_Witness ==
  /\ pc = "returned"
  /\ Has(cbCalls, <<"facade", "FACADE_ERROR">>)
  /\ observers
  /\ SelectSeq(log, IsTeardown) = Teardown

\* C5: a configured rewind height other than the "no rewind" value is applied
\* exactly once, with that height, before the P2P server is initialized; with
\* the "no rewind" value the core is never rewound.
C5_RewindBeforeServerInit ==
  /\ Count(log, "rewind") <= 1
  /\ rollBack = UINT32_MAX => (~Has(log, "rewind") /\ rewoundTo = UINT32_MAX)
  /\ (rollBack # UINT32_MAX /\ pc # "start") =>
       (Count(log, "rewind") = 1 /\ rewoundTo = rollBack)
  /\ (rollBack # UINT32_MAX /\ Has(log, "serverInit")) =>
       Pos(log, "rewind") < Pos(log, "serverInit")

C5_Witness ==
  /\ rollBack # UINT32_MAX
  /\ Has(log, "serverInit")
  /\ Has(log, "rewind")
  /\ rewoundTo = rollBack

(***************************************************************************)
(* Properties of the synchronous calls                                     *)
(***************************************************************************)

\* what RpcNode's two mining calls return when success means: nothing raised,
\* a status in okStatus, and (for getBlockTemplate) a blob that parses
RpcResult(okStatus) ==
  call.node = "rpc" =>
    /\ ret \in {"true", "false"}
    /\ call.op = "getBlockTemplate" =>
         (ret = "true" <=> (/\ call.exc = "none"
                            /\ call.status \in okStatus
                            /\ call.blob = "valid"))
    /\ call.op = "handleBlockFound" =>
         (ret = "true" <=> (/\ call.exc = "none"
                            /\ call.status \in okStatus))

\* a call of RpcNode that does not return true leaves diffic and height alone
RpcFailureWritesNothing ==
  (call'.node = "rpc" /\ ret' # "true") => (diffic' = diffic /\ height' = height)

\* C6 (amended): RpcNode::getBlockTemplate returns true exactly when the call
\* raised nothing, the status is OK or empty, and the blob parses (and then
\* diffic and height are the response's), and RpcNode::handleBlockFound
\* exactly when the call raised nothing and the status is OK or empty;
\* otherwise they return false, nothing is thrown, and diffic and height keep
\* their values.
C6_RpcTrueIffNoError ==
  /\ [](RpcResult({CORE_RPC_STATUS_OK, ""}))
  /\ []((call.node = "rpc" /\ call.op = "getBlockTemplate" /\ ret = "true") =>
          (diffic = call.difficulty /\ height = call.height))
  /\ [][RpcFailureWritesNothing]_vars

\* C6 (as claimed): as above, with true only for the OK status.
C6_RpcTrueIffOk ==
  /\ [](RpcResult({CORE_RPC_STATUS_OK}))
  /\ [][RpcFailureWritesNothing]_vars

C6_Witness ==
  /\ call.node = "rpc"
  /\ call.op = "getBlockTemplate"
  /\ call.status = CORE_RPC_STATUS_OK
  /\ call.blob = "garbage"
  /\ ret = "false"
  /\ diffic > 0

\* C7 (as claimed): getBlockTemplate and handleBlockFound of either node
\* return true or false and never throw.
C7_MiningCallsNeverThrow ==
  call.op \in {"getBlockTemplate", "handleBlockFound"} => ret \in {"true", "false"}

\* the four rules of interpret_rpc_response for the evaluation <<ok, status, err>>
InterpretRules(ok, status, err) ==
  /\ ~ok => err = "possible lost connection to daemon"
  /\ (ok /\ status = "BUSY") => err = "daemon is busy. Please try later"
  /\ (ok /\ status = "OK") => err = ""
  /\ (ok /\ status \notin {"BUSY", "OK"}) => err = status

\* C8 (amended): the four rules hold, and the result is empty exactly when the
\* call succeeded with status OK or with the empty status.
C8_InterpretRulesEmptyStatus ==
  /\ InterpretRules(interp[1], interp[2], interp[3])
  /\ interp[3] = "" <=> (interp[1] /\ interp[2] \in {"OK", ""})

\* C8 (as claimed): the four rules hold, and the result is empty exactly when
\* the call succeeded with status OK.
C8_EmptyIffOk ==
  /\ InterpretRules(interp[1], interp[2], interp[3])
  /\ interp[3] = "" <=> (interp[1] /\ interp[2] = "OK")

C8_Witness ==
  /\ interp[1]
  /\ interp[2] = "BUSY"
  /\ interp[3] = "daemon is busy. Please try later"

(***************************************************************************)
(* Properties of the storage bootstrap of createInprocessNode              *)
(***************************************************************************)

\* the storage part of the factory is complete, the node not yet constructed
BootstrapPassed == fpc \in {"checkpoints", "addCheckpoint", "dns", "construct"}
KeptLog == <<"init", "checkDBSchemeVersion">>
ResetLog == <<"init", "checkDBSchemeVersion", "shutdown", "destroy", "init">>

C10_BootstrapFailureKinds ==
  dbFault # "none" =>
    /\ fpc = "failed"
    /\ ~node
    /\ pc = "start"
    /\ dbFault = "system_error_io" => failure = "IO error"
    /\ dbFault = "system_error_other" => failure = "Database in usage"
    /\ dbFault = "exception" => failure = "Database initialization failed"

C10_Witness ==
  /\ dbFault = "system_error_io"
  /\ dblog = ResetLog
  /\ failure = "IO error"
  /\ ~node

(***************************************************************************)
(* Properties of the data directory and checkpoint steps of the factory    *)
(***************************************************************************)

\* C11: with the default location a missing data directory is created, or
\* the bootstrap fails when it cannot be created; with an explicitly named
\* directory that does not exist the bootstrap fails with "Directory does
\* not exist", the directory is not created and no storage engine is opened.
C11_ExplicitMissingDirFails ==
  /\ (~dataDirExplicit /\ fpc # "start")
        => (dirExists \/ (fpc = "failed" /\ failure = "Can't create directory"))
  /\ dataDirExplicit => ~dirCreated
  /\ (dataDirExplicit /\ ~dirExists /\ fpc # "start")
        => /\ fpc = "failed"
           /\ failure = "Directory does not exist"
           /\ handlesMade = 0
           /\ dblog = <<>>
           /\ ~dbOpen

\* the factory got past the checkpoint steps
CheckpointsLoaded == fpc \in {"construct", "done"} \/ (fpc = "failed" /\ failure = "core load")

\* C12: the checkpoint set handed to the node is empty when the
\* no-checkpoints flag or the testnet flag is set, and the DNS lookup is then
\* never attempted; otherwise it holds every built-in pair, the lookup is
\* attempted exactly once and after every built-in pair was added, and a
\* failed lookup neither fails the factory nor removes a pair. The
\* reorg-allowed flag sets only the mode and the warning line.
C12_CheckpointBootstrap ==
  /\ (CheckpointsLoaded /\ (withoutCheckpoints \/ testnet))
        => /\ checkpoints = {}
           /\ ~Has(cplog, CpEntry("dns", 0))
           /\ dnsResult = "none"
  /\ (CheckpointsLoaded /\ ~withoutCheckpoints /\ ~testnet)
        => /\ BuiltinCheckpoints \subseteq checkpoints
           /\ checkpoints \ BuiltinCheckpoints \subseteq DnsCheckpoints
           /\ Count(cplog, CpEntry("dns", 0)) = 1
           /\ \A i \in BuiltinCheckpoints :
                Before(cplog, CpEntry("add", i), CpEntry("dns", 0))
           /\ (dnsResult = "failed" => checkpoints = BuiltinCheckpoints)
  /\ (fpc = "construct" => failure = "")
  /\ fpc = "done"
        => /\ nodeCheckpoints = checkpoints
           /\ nodeReorg = allowReorg
  /\ CheckpointsLoaded => (Has(cplog, CpEntry("warnReorg", 0)) <=> allowReorg)

C12_Witness ==
  /\ fpc = "done"
  /\ node
  /\ ~withoutCheckpoints /\ ~testnet /\ allowReorg
  /\ dnsResult = "failed"
  /\ nodeCheckpoints = BuiltinCheckpoints

\* C13: over any sequence of factory calls and init / deinit of the node,
\* the handle the node works on is the one the factory holds and the last
\* one made: a later factory call makes no second handle and does not
\* replace the node's.
C13_OneStorageHandle ==
  node => (nodeHandle = handle /\ handlesMade = nodeHandle)

(***************************************************************************)
(* Properties of getConnections                                            *)
(***************************************************************************)

\* C14: getConnections makes the sub-call once per call; it returns only
\* after the completion callback has fired, and returns what the sub-call
\* collected; a completion with an error is logged and the call still
\* returns; once the completion has fired the call returns.
C14_GetConnectionsSynchronous ==
  /\ [](subCalls = connCalls)
  /\ [](connPc = "returned" => (subPc = "completed" /\ promise # "unset"
                                 /\ connRet = collected))
  /\ [][(connPc = "waiting" /\ connPc' = "returned")
          => /\ promise # "unset"
             /\ connRet' = collected
             /\ connLogged' = connLogged + (IF promise = "ERROR" THEN 1 ELSE 0)]_vars
  /\ ((connPc = "waiting" /\ promise # "unset") ~> (connPc = "returned"))

C14_Witness ==
  /\ connPc = "returned"
  /\ connCalls = 2
  /\ connLogged = 1
  /\ promise = "OK"
  /\ Len(connRet) = MaxConnections

(***************************************************************************)
(* Properties of the statistics of the embedded node                       *)
(***************************************************************************)

\* C15: on a chain with at least one block, the value getTxCount returns is
\* the total transaction count minus the chain height without wrap-around:
\* it never exceeds the total transaction count.
C15_TxCountNoWrap ==
  txPc = "done" => /\ txResult = txReadCount - txReadHeight
                   /\ txResult <= chainTxCount

(***************************************************************************)
(* Properties of the payment id codec                                      *)
(***************************************************************************)

\* the string with its letters in lower case
ToLower(str) == [i \in 1..Len(str) |-> IF str[i] = "A" THEN "a" ELSE str[i]]

\* C16 (amended): for every valid hex identifier id,
\* extractPaymentId(convertPaymentId(id)) is id with its letters in lower
\* case, except for the all-zero identifier, for which it is the empty
\* string; it equals id exactly when id is lower-case and not all-zero.
C16_RoundTripLowerNonZero ==
  (codecOp = "roundtrip" /\ parsePaymentId(cvInput))
    => /\ exResult = (IF HashOf(cvInput) = NULL_HASH THEN <<>> ELSE ToLower(cvInput))
       /\ (exResult = cvInput
             <=> (cvInput = ToLower(cvInput) /\ HashOf(cvInput) # NULL_HASH))

\* C16 (as claimed): for every valid hex identifier id,
\* extractPaymentId(convertPaymentId(id)) = id.
C16_RoundTrip ==
  (codecOp = "roundtrip" /\ parsePaymentId(cvInput)) => exResult = cvInput

C16_Witness ==
  /\ codecOp = "roundtrip"
  /\ parsePaymentId(cvInput)
  /\ exResult = cvInput
  /\ \E i \in 1..Len(cvInput) : cvInput[i] = "a"

\* C17: convertPaymentId calls the encoder only for strings that parse as a
\* hex identifier of the full length: the empty string gives the empty
\* output and no encoder call; any other string that does not parse fails
\* with the format error that names the string, and nothing is encoded.
C17_ConvertRejectsBeforeEncoding ==
  codecOp = "convert"
    => /\ (encoderCalls > 0 => parsePaymentId(cvInput))
       /\ (cvInput = <<>>
             => (cvResult = "ok" /\ cvOut = <<>> /\ encoderCalls = 0))
       /\ ((cvInput # <<>> /\ ~parsePaymentId(cvInput))
             => /\ cvResult = "threw"
                /\ cvError = [kind |-> "invalid format", names |-> cvInput]
                /\ cvOut = <<>>
                /\ encoderCalls = 0)
       /\ (parsePaymentId(cvInput) => (cvResult = "ok" /\ encoderCalls = 1))

C17_Witness ==
  /\ codecOp = "convert"
  /\ Len(cvInput) = 2 * HashSize
  /\ \E i \in 1..Len(cvInput) : cvInput[i] = "g"
  /\ cvResult = "threw"

\* C18: extractPaymentId returns the empty string when the extra data holds
\* no payment identifier or holds the all-zero one, never the hex of the
\* zero hash; otherwise it returns the hex of the identifier it holds.
C18_ExtractEmptyForAbsentOrZero ==
  codecOp = "extract"
    => LET got == getPaymentIdFromTxExtra(exInput) IN
         /\ exFound = got[1]
         /\ ((~got[1] \/ got[2] = NULL_HASH) => exResult = <<>>)
         /\ ((got[1] /\ got[2] # NULL_HASH) => exResult = podToHex(got[2]))
         /\ exResult # podToHex(NULL_HASH)

C18_Witness ==
  /\ codecOp = "extract"
  /\ exFound
  /\ exResult = <<>>

\* C21: getIncomingConnectionsCount returns the total connection count
\* minus the outgoing count and the value lies between 0 and the total, also
\* when connections are opened or closed between the two reads; when the
\* peer set does not change, incoming plus outgoing is the total.
C21_IncomingNoWrap ==
  (pcOp = "incoming" /\ pcPc = "done")
    => /\ pcResult = pcReadTotal - pcReadOut
       /\ pcResult <= pcReadTotal
       /\ (pcStable => pcResult + peersOut = peersIn + peersOut)

====
